---- MODULE Spec2Model ----
(***************************************************************************)
(* Weekly class timetable generation: the single-class path                *)
(* (timetable/views.py timetable_regenerate_for_class calling              *)
(* timetable/solver.py generate_timetable_for_class) and the whole-school  *)
(* path (timetable/management/commands/seed_timetables.py), over a store   *)
(* of TimetableEntry rows with transactions.                               *)
(*                                                                         *)
(* Store model: db is the committed table, the one every reader sees.      *)
(* Statements outside transaction.atomic() commit at once (Django          *)
(* autocommit); statements inside it are buffered in tx[p] / txDel[p] and  *)
(* reach db in one step at commit, or are dropped on rollback.             *)
(***************************************************************************)
EXTENDS Integers, Sequences, FiniteSets, TLC

\* ---- bounds of the model ----
MaxClasses == 2
MaxSubjects == 4
MaxTeachers == 2
NumProcs == 2
MaxRuns == 2
MaxShift == 0
MaxQuotaSubjects == 32
MaxQuotaSlots == 8
MaxApiCalls == 1
MaxSaves == 3
MaxPriority5 == 25
MaxPriority4 == 25
MaxAverage == 8
MaxPlanSubjects == 3
MaxAssessments == 4

\* ---- program constants ----
DAYS == <<0, 1, 2, 3, 4>>
PERIODS == <<1, 2, 3, 4, 5, 6>>
SeedDAYS == <<0, 1, 2, 3, 4>>
SeedPERIODS == <<1, 2, 3, 4, 5, 6>>

num_days == Len(DAYS)
num_periods == Len(PERIODS)
total_slots == num_days * num_periods

Procs == 1..NumProcs
NoSol == <<>>
NoView == [kind |-> "none"]
NoEntry == [school_class |-> 0]
NoRet == [fn |-> "none"]

VARIABLES
    numClasses,       \* SchoolClass rows, in (name, section) order: 1..numClasses
    numSubjects,      \* Subject rows, in name order: index 0..numSubjects-1
    numTeachers,      \* User rows with role TEACHER, in username order
    db,               \* committed TimetableEntry rows
    pc,               \* per process: "idle", "deleted", "intx", "seedtx"
    op,               \* per process: last operation, "none", "regen", "seed"
    cls,              \* per process: class being written
    x,                \* per process: the solver's assignment, NoSol before the solve
    slot,             \* per process: loop position d_idx * num_periods + p_idx
    teacher_counter,  \* per process: round-robin counter
    tx,               \* per process: rows created inside the open transaction
    txDel,            \* per process: rows deleted inside the open transaction
    run,              \* per process: number of the current run
    result,           \* per process: outcome of the last run
    before,           \* per process: the class's committed rows when the request began
    nextRun,          \* runs started so far
    lost,             \* per process: the last rollback dropped rows already written
    qin,              \* quota computation: the input <<subjects, total_slots>>
    sessions,         \* quota computation: the result, <<>> before the call
    apiCalls,         \* REST calls on timetable entries made so far
    view,             \* the last response of a timetable view
    schools,          \* stored School rows: pk, name, slug
    saves,            \* School.save calls made so far
    saved,            \* outcome of the last School.save
    call,             \* the arguments of a call of one of the pure functions
    ret               \* what the call returned, NoRet before it returns

vars == <<numClasses, numSubjects, numTeachers, db, pc, op, cls, x, slot,
          teacher_counter, tx, txDel, run, result, before, nextRun, lost, qin, sessions,
          apiCalls, view, schools, saves, saved, call, ret>>

catalog == <<numClasses, numSubjects, numTeachers>>
quotaVars == <<qin, sessions>>
webVars == <<apiCalls, view>>
schoolVars == <<schools, saves, saved>>
callVars == <<call, ret>>

\* ---- _compute_sessions_per_subject ----
\* subjects is the name-ordered list, given by its length; the result maps the
\* list index of a subject (standing for subj.id) to its weekly sessions.
ComputeSessionsOffByOne(n, total) ==
    LET base == total \div n
        remainder == total % n
    IN [idx \in 0..(n - 1) |-> base + (IF idx <= remainder THEN 1 ELSE 0)]

ComputeSessionsPerSubject(n, total) ==
    LET base == total \div n
        remainder == total % n
    IN [idx \in 0..(n - 1) |-> base + (IF idx < remainder THEN 1 ELSE 0)]

RECURSIVE SumTo(_, _)
SumTo(f, n) == IF n < 0 THEN 0 ELSE f[n] + SumTo(f, n - 1)

\* ---- the CP-SAT model of generate_timetable_for_class ----
DayIdx == 0..(num_days - 1)
PeriodIdx == 0..(num_periods - 1)
Grid == DayIdx \X PeriodIdx
SlotNo(d, p) == d * num_periods + p

\* Subject occupying position j when the week is filled subject by subject.
BlockSubject(q, n, j) ==
    CHOOSE s \in 0..(n - 1) :
        /\ (IF s = 0 THEN 0 ELSE SumTo(q, s - 1)) <= j
        /\ j < SumTo(q, s)

\* The assignments of the boolean variables x[(d, p, s)] the search ranges
\* over, as cell -> set of subjects with value 1: rotations and block fills
\* of the week, one subject everywhere, and a block fill whose last slot is
\* empty and whose first slot carries two subjects.
Candidates(n) ==
    LET q == ComputeSessionsPerSubject(n, total_slots)
        rot(b) == [c \in Grid |-> {(SlotNo(c[1], c[2]) + b) % n}]
        blk(b) == [c \in Grid |->
                     {BlockSubject(q, n, (SlotNo(c[1], c[2]) + b) % total_slots)}]
        mono == [c \in Grid |-> {0}]
        gap == [c \in Grid |->
                  IF SlotNo(c[1], c[2]) = 0 THEN {0, n - 1}
                  ELSE IF SlotNo(c[1], c[2]) = total_slots - 1 THEN {}
                  ELSE blk(0)[c]]
    IN {rot(b) : b \in 0..MaxShift} \cup {blk(b) : b \in 0..MaxShift} \cup {mono, gap}

\* 1) Each slot (day, period) must have exactly ONE subject
OneSubjectPerSlotDropped(a, n) == TRUE

OneSubjectPerSlot(a, n) ==
    \A c \in Grid : Cardinality(a[c]) = 1

\* 2) Each subject must appear a fixed number of times in the week
SubjectQuotaDropped(a, n) == TRUE

SubjectQuota(a, n) ==
    LET q == ComputeSessionsPerSubject(n, total_slots)
    IN \A s \in 0..(n - 1) : Cardinality({c \in Grid : s \in a[c]}) = q[s]

\* solver.Solve(model): the assignments with status OPTIMAL or FEASIBLE
Solutions(n) ==
    {a \in Candidates(n) : OneSubjectPerSlot(a, n) /\ SubjectQuota(a, n)}

\* ---- the TimetableEntry table ----
Row(c, d, p, s, t, r) ==
    [school_class |-> c, day_of_week |-> d, period |-> p,
     subject |-> s, teacher |-> t, run |-> r]

RowsOf(rows, c) == {e \in rows : e.school_class = c}

\* Meta.unique_together = ("school_class", "day_of_week", "period")
NoUniqueTogether(rows, e) == FALSE

UniqueTogether(rows, e) ==
    \E f \in rows :
        /\ f.school_class = e.school_class
        /\ f.day_of_week = e.day_of_week
        /\ f.period = e.period

\* The table as the statements of process p see it inside its transaction.
Visible(p) == (db \ txDel[p]) \cup tx[p]

\* An INSERT waits while another open transaction holds an uncommitted row
\* with the same unique key.
Waits(p, e) == \E q \in Procs \ {p} : UniqueTogether(tx[q], e)

\* TimetableEntry.objects.create(...) inside transaction.atomic(): the row is
\* held by the transaction until it commits.
CreateAutocommit(p, e) ==
    /\ db' = db \cup {e}
    /\ UNCHANGED tx

Create(p, e) ==
    /\ tx' = [tx EXCEPT ![p] = @ \cup {e}]
    /\ UNCHANGED db

\* Leaving transaction.atomic() by an exception: nothing of it reaches db.
Rollback(p, why) ==
    /\ pc' = [pc EXCEPT ![p] = "idle"]
    /\ result' = [result EXCEPT ![p] = why]
    /\ tx' = [tx EXCEPT ![p] = {}]
    /\ txDel' = [txDel EXCEPT ![p] = {}]
    /\ x' = [x EXCEPT ![p] = NoSol]
    /\ slot' = [slot EXCEPT ![p] = 0]
    /\ teacher_counter' = [teacher_counter EXCEPT ![p] = 0]
    /\ lost' = [lost EXCEPT ![p] = tx[p] # {}]
    /\ UNCHANGED <<db, op, cls, run, before, nextRun>>

\* Leaving transaction.atomic() normally: its deletes and inserts reach db in
\* one step.
Commit(p) ==
    /\ db' = (db \ txDel[p]) \cup tx[p]
    /\ pc' = [pc EXCEPT ![p] = "idle"]
    /\ result' = [result EXCEPT ![p] = "ok"]
    /\ tx' = [tx EXCEPT ![p] = {}]
    /\ txDel' = [txDel EXCEPT ![p] = {}]
    /\ x' = [x EXCEPT ![p] = NoSol]
    /\ slot' = [slot EXCEPT ![p] = 0]
    /\ teacher_counter' = [teacher_counter EXCEPT ![p] = 0]
    /\ UNCHANGED <<op, cls, run, before, nextRun, lost>>

\* ---- timetable_regenerate_for_class: the POST of a MANAGEMENT user ----
\* TimetableEntry.objects.filter(school_class=school_class).delete(), committed
\* on its own; it waits for rows another open transaction has deleted.
RegenerateDelete(p, c) ==
    /\ pc[p] = "idle"
    /\ nextRun < MaxRuns
    /\ c \in 1..numClasses
    /\ \A q \in Procs \ {p} : RowsOf(txDel[q] \cap db, c) = {}
    /\ db' = db \ RowsOf(db, c)
    /\ pc' = [pc EXCEPT ![p] = "deleted"]
    /\ op' = [op EXCEPT ![p] = "regen"]
    /\ cls' = [cls EXCEPT ![p] = c]
    /\ before' = [before EXCEPT ![p] = RowsOf(db, c)]
    /\ result' = [result EXCEPT ![p] = "none"]
    /\ run' = [run EXCEPT ![p] = nextRun + 1]
    /\ nextRun' = nextRun + 1
    /\ lost' = [lost EXCEPT ![p] = FALSE]
    /\ UNCHANGED <<x, slot, teacher_counter, tx, txDel>>

\* ---- generate_timetable_for_class ----
\* if not subjects: raise ValueError
NoSubjects(n) == n = 0

\* if not teachers: raise ValueError
NoTeachersUnchecked(n) == FALSE

NoTeachers(n) == n = 0

Fail(p, why) ==
    /\ pc' = [pc EXCEPT ![p] = "idle"]
    /\ result' = [result EXCEPT ![p] = why]
    /\ UNCHANGED <<x, slot, teacher_counter, tx, txDel>>

\* From the catalog reads to the entry into transaction.atomic().
GenerateBegin(p) ==
    /\ pc[p] = "deleted"
    /\ IF NoSubjects(numSubjects) THEN Fail(p, "no_subjects")
       ELSE IF NoTeachers(numTeachers) THEN Fail(p, "no_teachers")
       ELSE IF Solutions(numSubjects) = {} THEN Fail(p, "infeasible")
       ELSE /\ \E a \in Solutions(numSubjects) : x' = [x EXCEPT ![p] = a]
            /\ pc' = [pc EXCEPT ![p] = "intx"]
            /\ slot' = [slot EXCEPT ![p] = 0]
            /\ teacher_counter' = [teacher_counter EXCEPT ![p] = 0]
            /\ UNCHANGED <<result, tx, txDel>>
    /\ UNCHANGED <<db, op, cls, run, before, nextRun, lost>>

Min(S) == CHOOSE m \in S : \A o \in S : m <= o

\* Always the first teacher of the list.
FirstTeacher(counter, teacher_count) == 0

\* teachers[teacher_counter % teacher_count], as an index of the list.
RoundRobin(counter, teacher_count) == counter % teacher_count

\* The pick rotated by the position of the class.
TeacherByClass(p) == RoundRobin(teacher_counter[p] + cls[p], numTeachers)

\* The teacher of the row process p creates: the pick reads the counter of
\* the call and the teacher list, nothing of the class or of the table.
TeacherOf(p) == RoundRobin(teacher_counter[p], numTeachers)

\* One pass of the inner loop over (d_idx, p_idx).
GenerateInsert(p) ==
    /\ pc[p] = "intx"
    /\ slot[p] < total_slots
    /\ LET d_idx == slot[p] \div num_periods
           p_idx == slot[p] % num_periods
           chosen == x[p][<<d_idx, p_idx>>]
       IN IF chosen = {}
          THEN \* chosen_subject is None: continue
               /\ slot' = [slot EXCEPT ![p] = @ + 1]
               /\ UNCHANGED <<db, pc, op, cls, x, teacher_counter, tx, txDel,
                              run, result, before, nextRun, lost>>
          ELSE IF numTeachers = 0
          THEN Rollback(p, "zero_division")
          ELSE LET e == Row(cls[p], DAYS[d_idx + 1], PERIODS[p_idx + 1], Min(chosen),
                            TeacherOf(p), run[p])
               IN IF UniqueTogether(Visible(p), e)
                  THEN Rollback(p, "integrity_error")
                  ELSE /\ ~Waits(p, e)
                       /\ Create(p, e)
                       /\ teacher_counter' = [teacher_counter EXCEPT ![p] = @ + 1]
                       /\ slot' = [slot EXCEPT ![p] = @ + 1]
                       /\ UNCHANGED <<pc, op, cls, x, txDel, run, result,
                                      before, nextRun, lost>>

\* The loops are done: the atomic block commits and the view redirects.
GenerateCommit(p) ==
    /\ pc[p] = "intx"
    /\ slot[p] = total_slots
    /\ Commit(p)

\* A database error raised by a statement inside the atomic block.
PersistenceError(p) ==
    /\ pc[p] \in {"intx", "seedtx"}
    /\ Rollback(p, "db_error")

\* ---- seed_timetables: Command.handle ----
\* The checks, then TimetableEntry.objects.all().delete() inside the atomic block.
SeedBegin(p) ==
    /\ pc[p] = "idle"
    /\ nextRun < MaxRuns
    /\ op' = [op EXCEPT ![p] = "seed"]
    /\ before' = [before EXCEPT ![p] = db]
    /\ run' = [run EXCEPT ![p] = nextRun + 1]
    /\ nextRun' = nextRun + 1
    /\ lost' = [lost EXCEPT ![p] = FALSE]
    /\ cls' = [cls EXCEPT ![p] = 1]
    /\ IF numClasses = 0 THEN Fail(p, "no_classes")
       ELSE IF numSubjects = 0 THEN Fail(p, "no_subjects")
       ELSE IF numTeachers = 0 THEN Fail(p, "no_teachers")
       ELSE /\ \A q \in Procs \ {p} : txDel[q] \cap db = {}
            /\ txDel' = [txDel EXCEPT ![p] = db]
            /\ pc' = [pc EXCEPT ![p] = "seedtx"]
            /\ result' = [result EXCEPT ![p] = "none"]
            /\ slot' = [slot EXCEPT ![p] = 0]
            /\ UNCHANGED <<x, teacher_counter, tx>>
    /\ UNCHANGED db

\* The rotating index without the offset of the class.
SeedTeacherNoOffset(day_index, period_index, class_teacher_offset, teacher_count) ==
    (day_index * Len(SeedPERIODS) + period_index) % teacher_count

\* The rotating index of the teacher of a slot of a class.
SeedTeacher(day_index, period_index, class_teacher_offset, teacher_count) ==
    (day_index * Len(SeedPERIODS) + period_index + class_teacher_offset)
        % teacher_count

\* One pass of the innermost loop; after the last period of Friday the loop
\* over classes moves on.
SeedInsert(p) ==
    /\ pc[p] = "seedtx"
    /\ cls[p] <= numClasses
    /\ LET idx == cls[p] - 1
           day_index == slot[p] \div Len(SeedPERIODS)
           period_index == slot[p] % Len(SeedPERIODS)
           class_subject_offset == idx % numSubjects
           class_teacher_offset == idx % numTeachers
           subj_idx == (day_index * Len(SeedPERIODS) + period_index
                          + class_subject_offset) % numSubjects
           teacher_idx == SeedTeacher(day_index, period_index,
                                      class_teacher_offset, numTeachers)
           e == Row(cls[p], SeedDAYS[day_index + 1], SeedPERIODS[period_index + 1],
                    subj_idx, teacher_idx, run[p])
           last == slot[p] + 1 = Len(SeedDAYS) * Len(SeedPERIODS)
       IN IF UniqueTogether(Visible(p), e)
          THEN Rollback(p, "integrity_error")
          ELSE /\ ~Waits(p, e)
               /\ Create(p, e)
               /\ slot' = [slot EXCEPT ![p] = IF last THEN 0 ELSE @ + 1]
               /\ cls' = [cls EXCEPT ![p] = IF last THEN @ + 1 ELSE @]
               /\ UNCHANGED <<pc, op, x, teacher_counter, txDel, run, result,
                              before, nextRun, lost>>

SeedCommit(p) ==
    /\ pc[p] = "seedtx"
    /\ cls[p] > numClasses
    /\ Commit(p)

\* ---- the quota computation on its own ----
ComputeSessions ==
    /\ sessions = <<>>
    /\ sessions' = ComputeSessionsPerSubject(qin[1], qin[2])
    /\ UNCHANGED <<catalog, db, pc, op, cls, x, slot, teacher_counter, tx, txDel,
                   run, result, before, nextRun, lost, qin, webVars, schoolVars, callVars>>

\* ---- seed_demo_data, seed_school_data: Command.handle ----
\* Both commands run in one transaction: they delete every TimetableEntry,
\* class, subject and non-superuser account, create their own catalog and
\* give one class, GV 10A, a timetable.  Of the classes they create the model
\* follows the first MaxClasses, GV 10A being class 1.
DAY_MAP == [MON |-> 1, TUE |-> 2, WED |-> 3, THU |-> 4, FRI |-> 5]
DataDays == <<"MON", "TUE", "WED", "THU", "FRI">>
DataPeriods == <<1, 2, 3, 4, 5, 6>>

\* Subjects in name order, teachers in username order, as each command
\* creates them: index of math, eng, sci and of their teachers.
DataCatalog(cmd) ==
    IF cmd = "demo"
    THEN [subjects |-> 3, teachers |-> 6, math |-> 1, eng |-> 0, sci |-> 2,
          math_teacher |-> 1, eng_teacher |-> 0, sci_teacher |-> 2]
    ELSE [subjects |-> 7, teachers |-> 3, math |-> 3, eng |-> 1, sci |-> 4,
          math_teacher |-> 1, eng_teacher |-> 0, sci_teacher |-> 2]

DataRows(cmd, c, r) ==
    LET k == DataCatalog(cmd)
        subject_cycle == <<k.math, k.eng, k.sci, k.math, k.eng, k.sci>>
        teacher_map == (k.math :> k.math_teacher) @@ (k.sci :> k.sci_teacher)
                          @@ (k.eng :> k.eng_teacher)
    IN {Row(c, DAY_MAP[DataDays[i]], DataPeriods[idx], subject_cycle[idx],
            teacher_map[subject_cycle[idx]], r) :
            i \in 1..Len(DataDays), idx \in 1..Len(DataPeriods)}

SeedData(p, cmd) ==
    /\ \A q \in Procs : pc[q] = "idle"
    /\ nextRun < MaxRuns
    /\ db' = DataRows(cmd, 1, nextRun + 1)
    /\ numClasses' = MaxClasses
    /\ numSubjects' = DataCatalog(cmd).subjects
    /\ numTeachers' = DataCatalog(cmd).teachers
    /\ op' = [op EXCEPT ![p] = "data"]
    /\ cls' = [cls EXCEPT ![p] = 1]
    /\ before' = [before EXCEPT ![p] = db]
    /\ result' = [result EXCEPT ![p] = "ok"]
    /\ run' = [run EXCEPT ![p] = nextRun + 1]
    /\ nextRun' = nextRun + 1
    /\ lost' = [lost EXCEPT ![p] = FALSE]
    /\ UNCHANGED <<pc, x, slot, teacher_counter, tx, txDel>>

\* ---- TimetableEntryViewSet: the REST writes on timetable entries ----
DAY_CHOICES == <<0, 1, 2, 3, 4>>

\* The (day_of_week, period) values the modelled requests carry: the first
\* slot of the grid, and the first day with a period after the last one.
ApiSlots == {<<DAY_CHOICES[1], PERIODS[1]>>,
             <<DAY_CHOICES[1], PERIODS[Len(PERIODS)] + 1>>}
ApiClasses == {1}

\* ChoiceField of day_of_week; period is a plain IntegerField.
ValidDay(d) == \E i \in 1..Len(DAY_CHOICES) : DAY_CHOICES[i] = d

\* A statement outside a transaction waits for rows an open transaction
\* holds: an uncommitted row with the same unique key, or a deleted row.
ApiWaits(e) == \E q \in Procs : UniqueTogether(tx[q], e) \/ e \in txDel[q]

\* POST /api/timetable/ with subject and teacher the first of the catalog.
ApiCreate(c, d, per) ==
    /\ apiCalls < MaxApiCalls
    /\ c \in 1..numClasses
    /\ numSubjects > 0 /\ numTeachers > 0
    /\ apiCalls' = apiCalls + 1
    /\ LET e == Row(c, d, per, 0, 0, 0)
       IN IF ~ValidDay(d) \/ UniqueTogether(db, e)
          THEN UNCHANGED db
          ELSE /\ ~ApiWaits(e)
               /\ db' = db \cup {e}

\* PUT /api/timetable/<pk>/ moving the entry e to (d, per); the row is from
\* then on one written by a REST call, run 0.
ApiUpdate(e, d, per) ==
    /\ apiCalls < MaxApiCalls
    /\ e \in db
    /\ apiCalls' = apiCalls + 1
    /\ LET f == [e EXCEPT !.day_of_week = d, !.period = per, !.run = 0]
       IN IF ~ValidDay(d) \/ UniqueTogether(db \ {e}, f)
          THEN UNCHANGED db
          ELSE /\ ~ApiWaits(e) /\ ~ApiWaits(f)
               /\ db' = (db \ {e}) \cup {f}

\* DELETE /api/timetable/<pk>/
ApiDelete(e) ==
    /\ apiCalls < MaxApiCalls
    /\ e \in db
    /\ ~ApiWaits(e)
    /\ apiCalls' = apiCalls + 1
    /\ db' = db \ {e}

\* The entries the modelled requests address.
ApiTargets == {e \in db : e.school_class \in ApiClasses
                           /\ <<e.day_of_week, e.period>> \in ApiSlots}

ApiStep ==
    /\ \/ \E c \in ApiClasses : \E s \in ApiSlots : ApiCreate(c, s[1], s[2])
       \/ \E e \in ApiTargets : \E s \in ApiSlots : ApiUpdate(e, s[1], s[2])
       \/ \E e \in ApiTargets : ApiDelete(e)
    /\ UNCHANGED <<catalog, pc, op, cls, x, slot, teacher_counter, tx, txDel, run,
                   result, before, nextRun, lost, quotaVars, view, schoolVars, callVars>>

\* ---- timetable_class_view, teacher_timetable_view ----
\* The day codes and periods both views build their grid from.
ViewDAYS == <<0, 1, 2, 3, 4>>
ViewPERIODS == <<1, 2, 3, 4, 5, 6>>
ViewSlots == {<<ViewDAYS[i], ViewPERIODS[j]>> :
                  i \in 1..Len(ViewDAYS), j \in 1..Len(ViewPERIODS)}

SlotOf(e) == <<e.day_of_week, e.period>>

\* grid[day][period] = e for the entries the grid has a cell for; the other
\* entries are skipped.
ClassGrid(entries) ==
    [s \in ViewSlots |->
        IF \E e \in entries : SlotOf(e) = s
        THEN CHOOSE e \in entries : SlotOf(e) = s
        ELSE NoEntry]

timetable_class_view(c) ==
    /\ view' = IF c \in 1..numClasses
               THEN [kind |-> "class", of |-> c, status |-> 200,
                     grid |-> ClassGrid(RowsOf(db, c))]
               ELSE [kind |-> "class", of |-> c, status |-> 404]
    /\ UNCHANGED <<catalog, db, pc, op, cls, x, slot, teacher_counter, tx, txDel,
                   run, result, before, nextRun, lost, quotaVars, apiCalls,
                   schoolVars, callVars>>

\* grid[day][period].append(e): a KeyError, and so a server error, for an
\* entry whose day or period is no key of the grid.
TeacherGrid(entries) ==
    [s \in ViewSlots |-> {e \in entries : SlotOf(e) = s}]

\* The user is teacher t of the catalog, or (is_teacher FALSE) has another role.
teacher_timetable_view(t, is_teacher) ==
    /\ t \in 0..(numTeachers - 1)
    /\ LET entries == {e \in db : e.teacher = t}
       IN view' = IF ~is_teacher
                  THEN [kind |-> "teacher", of |-> t, status |-> 403]
                  ELSE IF \E e \in entries : SlotOf(e) \notin ViewSlots
                  THEN [kind |-> "teacher", of |-> t, status |-> 500]
                  ELSE [kind |-> "teacher", of |-> t, status |-> 200,
                        grid |-> TeacherGrid(entries)]
    /\ UNCHANGED <<catalog, db, pc, op, cls, x, slot, teacher_counter, tx, txDel,
                   run, result, before, nextRun, lost, quotaVars, apiCalls,
                   schoolVars, callVars>>

ViewStep ==
    \/ \E c \in 1..MaxClasses : timetable_class_view(c)
    \/ \E t \in 0..(MaxTeachers - 1) : \E is_teacher \in BOOLEAN :
           teacher_timetable_view(t, is_teacher)

\* ---- School.save ----
\* Names and slugs are sequences of characters.
NoSlug == <<>>
NoSchools ==
    /\ schools = {}
    /\ saves = 0
    /\ saved = [ok |-> TRUE, pk |-> 0]

\* django.utils.text.slugify on ASCII text: lower case, drop what is not a
\* word character, white space or hyphen, turn each run of white space and
\* hyphens into one hyphen, strip hyphens and underscores at both ends.
Lower(c) == CASE c = "A" -> "a" [] c = "B" -> "b" [] OTHER -> c
WordChars == {"a", "b", "x", "0", "1", "2", "3", "4", "5", "6", "7", "8", "9", "_"}
IsSep(c) == c \in {" ", "-"}

RECURSIVE LowerKept(_)
LowerKept(s) ==
    IF s = <<>> THEN <<>>
    ELSE LET c == Lower(Head(s))
         IN (IF c \in WordChars \/ IsSep(c) THEN <<c>> ELSE <<>>) \o LowerKept(Tail(s))

RECURSIVE Collapse(_)
Collapse(s) ==
    IF s = <<>> THEN <<>>
    ELSE IF IsSep(Head(s))
         THEN IF Tail(s) # <<>> /\ IsSep(Head(Tail(s)))
              THEN Collapse(Tail(s))
              ELSE <<"-">> \o Collapse(Tail(s))
         ELSE <<Head(s)>> \o Collapse(Tail(s))

RECURSIVE Strip(_)
Strip(s) ==
    IF s = <<>> THEN <<>>
    ELSE IF Head(s) \in {"-", "_"} THEN Strip(Tail(s))
    ELSE IF s[Len(s)] \in {"-", "_"} THEN Strip(SubSeq(s, 1, Len(s) - 1))
    ELSE s

slugify(name) == Strip(Collapse(LowerKept(name)))

\* str(counter) inside the f-string.
DigitChars == <<"0", "1", "2", "3", "4", "5", "6", "7", "8", "9">>
RECURSIVE Digits(_)
Digits(k) ==
    IF k < 10 THEN <<DigitChars[k + 1]>>
    ELSE Digits(k \div 10) \o <<DigitChars[(k % 10) + 1]>>

\* School.objects.filter(slug=slug).exclude(pk=self.pk).exists()
SlugExists(slug, pk) == \E s \in schools : s.slug = slug /\ s.pk # pk

\* The first candidate only: no loop.
FirstSlug(base_slug, slug, counter, pk) == slug

\* The while loop: slug is the candidate, counter the next suffix.
RECURSIVE UniqueSlug(_, _, _, _)
UniqueSlug(base_slug, slug, counter, pk) ==
    IF SlugExists(slug, pk)
    THEN UniqueSlug(base_slug, base_slug \o <<"-">> \o Digits(counter), counter + 1, pk)
    ELSE slug

\* The names and slugs the modelled saves carry.
SchoolNames == {<<"a">>, <<"A">>, <<"a", "!">>, <<"a", " ", "b">>,
                <<" ", "a", "-", "-", "b">>, <<"!">>}
SuppliedSlugs == {NoSlug, <<"a", "-", "1">>, <<"x">>}

\* A new school has no pk yet and gets the next one.
NewPk == Cardinality(schools) + 1

\* School.save of the school pk, or of a new one, with the given name and
\* slug; the unique index on slug refuses a slug another row has.
Save(pk, name, slug) ==
    /\ saves < MaxSaves
    /\ pk \in {s.pk : s \in schools} \cup {NewPk}
    /\ saves' = saves + 1
    /\ LET final == IF slug = NoSlug
                    THEN UniqueSlug(slugify(name), slugify(name), 1, pk)
                    ELSE slug
       IN IF SlugExists(final, pk)
          THEN /\ saved' = [ok |-> FALSE, pk |-> pk]
               /\ UNCHANGED schools
          ELSE /\ saved' = [ok |-> TRUE, pk |-> pk]
               /\ schools' = {s \in schools : s.pk # pk}
                                \cup {[pk |-> pk, name |-> name, slug |-> final]}
    /\ UNCHANGED <<catalog, db, pc, op, cls, x, slot, teacher_counter, tx, txDel,
                   run, result, before, nextRun, lost, quotaVars, webVars, callVars>>

\* ---- the pure functions: one call, from its arguments to its result ----
NoCall ==
    /\ call = [fn |-> "none"]
    /\ ret = NoRet

\* ---- AssessmentSerializer.validate, AssessmentViewSet.create ----
\* A field of the request data is <<>> when the request omits it and <<v>>
\* when it carries the value v.
Omitted == <<>>
Given(v) == <<v>>
MarksValues == {-1, 0, 1, 2, 150}
MaxMarksValues == {-1, 0, 1, 100}
AttendanceValues == {-1, 0, 100, 101}

\* data.get(key) in a condition: neither missing nor zero.
Truthy(field) == field # Omitted /\ field[1] # 0

\* max_marks = models.DecimalField(..., default=100)
DefaultMaxMarks == 100

\* The field the ValidationError names, "" when the data is returned.
validate(data) ==
    IF /\ Truthy(data.marks_obtained) /\ Truthy(data.max_marks)
       /\ data.marks_obtained[1] > data.max_marks[1]
    THEN "marks_obtained"
    ELSE IF Truthy(data.max_marks) /\ data.max_marks[1] <= 0
    THEN "max_marks"
    ELSE IF /\ data.attendance_percent # Omitted
            /\ ~(0 <= data.attendance_percent[1] /\ data.attendance_percent[1] <= 100)
    THEN "attendance_percent"
    ELSE ""

\* POST /api/assessments/: 400 with the field in error, or 201 and the stored
\* row, the model default filling an omitted max_marks.
AssessmentCreate ==
    /\ call.fn = "assessment"
    /\ ret = NoRet
    /\ ret' = IF validate(call) # ""
              THEN [fn |-> "assessment", status |-> 400, field |-> validate(call)]
              ELSE [fn |-> "assessment", status |-> 201,
                    marks_obtained |-> call.marks_obtained[1],
                    max_marks |-> IF call.max_marks = Omitted THEN DefaultMaxMarks
                                  ELSE call.max_marks[1]]
    /\ UNCHANGED <<catalog, db, pc, op, cls, x, slot, teacher_counter, tx, txDel,
                   run, result, before, nextRun, lost, quotaVars, webVars,
                   schoolVars, call>>

\* ---- calculate_study_time_allocation, create_daily_schedule ----
\* Durations are in tenths of an hour.  round(x, 1) of x = num / den tenths:
\* the nearest tenth, and either neighbour when x is half way between two,
\* where the binary value of x decides.
RoundTenths(num, den) ==
    LET q == num \div den
        r == num % den
    IN IF 2 * r < den THEN {q}
       ELSE IF 2 * r > den THEN {q + 1}
       ELSE {q, q + 1}

\* total_weekly_hours = 7.5 and its shares of 0.5, 0.3 and 0.2, in
\* hundredths of an hour.
HighShare == 375
MediumShare == 225
RevisionShare == 150
MediumLimit == 5
DailyLimit == 15

Repeat(n, task) == [i \in 1..n |-> task]

\* The allocations for focus topics of which p5 have priority 5, p4 priority
\* 4 and p3 priority 3, over n_subjects subjects, after the stable sort by
\* priority, highest first, of create_daily_schedule.
Allocations(p5, p4, p3, n_subjects, high, medium, revision) ==
    Repeat(p5, [duration |-> high, priority |-> 5])
        \o Repeat(p4, [duration |-> high, priority |-> 4])
        \o Repeat(IF p3 < MediumLimit THEN p3 ELSE MediumLimit,
                  [duration |-> medium, priority |-> 3])
        \o Repeat(IF p5 + p4 + p3 > 0 THEN n_subjects ELSE 0,
                  [duration |-> revision, priority |-> 2])

PlanDays == <<"Monday", "Tuesday", "Wednesday", "Thursday", "Friday">>

\* The two nested loops: sessions of at most 1.5 hours, one day after the
\* other.  remaining_duration is that of the first allocation of the list.
RECURSIVE Distribute(_, _, _, _)
Distribute(allocations, remaining_duration, day_index, daily_schedule) ==
    IF allocations = <<>> THEN daily_schedule
    ELSE IF remaining_duration > 0
    THEN LET session_duration == IF remaining_duration < DailyLimit
                                 THEN remaining_duration ELSE DailyLimit
             day == PlanDays[day_index + 1]
         IN Distribute(allocations, remaining_duration - session_duration,
                       (day_index + 1) % Len(PlanDays),
                       [daily_schedule EXCEPT ![day] =
                           Append(@, [duration |-> session_duration,
                                      priority |-> Head(allocations).priority])])
    ELSE IF Len(allocations) = 1 THEN daily_schedule
    ELSE Distribute(Tail(allocations), allocations[2].duration, day_index,
                    daily_schedule)

RECURSIVE DayTotal(_)
DayTotal(tasks) ==
    IF tasks = <<>> THEN 0 ELSE Head(tasks).duration + DayTotal(Tail(tasks))

\* daily_schedule[day].sort(key=priority): stable, lowest priority first.
SortByPriority(tasks) ==
    SelectSeq(tasks, LAMBDA t : t.priority = 2)
        \o SelectSeq(tasks, LAMBDA t : t.priority = 3)
        \o SelectSeq(tasks, LAMBDA t : t.priority = 4)
        \o SelectSeq(tasks, LAMBDA t : t.priority = 5)

\* while excess > 0 and daily_schedule[day]: drop or shorten the first task.
RECURSIVE Reduce(_, _)
Reduce(tasks, excess) ==
    IF excess > 0 /\ tasks # <<>>
    THEN IF Head(tasks).duration <= excess
         THEN Reduce(Tail(tasks), excess - Head(tasks).duration)
         ELSE <<[Head(tasks) EXCEPT !.duration = @ - excess]>> \o Tail(tasks)
    ELSE tasks

\* The day is left as it is.
Unbalanced(tasks) == tasks

Balance(tasks) ==
    IF DayTotal(tasks) > DailyLimit
    THEN Reduce(SortByPriority(tasks), DayTotal(tasks) - DailyLimit)
    ELSE tasks

create_daily_schedule(time_allocation) ==
    LET empty == [day \in {PlanDays[i] : i \in 1..Len(PlanDays)} |-> <<>>]
        distributed == IF time_allocation = <<>> THEN empty
                       ELSE Distribute(time_allocation, time_allocation[1].duration,
                                       0, empty)
    IN [day \in DOMAIN distributed |-> Balance(distributed[day])]

PlanTotal(daily_schedule) ==
    LET RECURSIVE Sum(_)
        Sum(i) == IF i = 0 THEN 0
                  ELSE DayTotal(daily_schedule[PlanDays[i]]) + Sum(i - 1)
    IN Sum(Len(PlanDays))

\* calculate_study_time_allocation followed by create_daily_schedule and the
\* summary of generate_weekly_study_plan.
StudyPlan ==
    /\ call.fn = "plan"
    /\ ret = NoRet
    /\ LET high_priority == call.p5 + call.p4
           n_medium == call.p3
       IN \E high \in (IF high_priority > 0
                       THEN RoundTenths(HighShare, 10 * high_priority) ELSE {0}) :
          \E medium \in (IF n_medium > 0
                         THEN RoundTenths(MediumShare, 10 * n_medium) ELSE {0}) :
          \E revision \in RoundTenths(RevisionShare, 10 * call.subjects) :
              LET schedule == create_daily_schedule(
                                  Allocations(call.p5, call.p4, call.p3, call.subjects,
                                              high, medium, revision))
              IN ret' = [fn |-> "plan", daily_schedule |-> schedule,
                         total_hours |-> PlanTotal(schedule)]
    /\ UNCHANGED <<catalog, db, pc, op, cls, x, slot, teacher_counter, tx, txDel,
                   run, result, before, nextRun, lost, quotaVars, webVars,
                   schoolVars, call>>

\* ---- calculate_topic_mastery: one topic of one subject ----
\* An assessment is <<marks_obtained, max_marks>>; the values are such that
\* the percentage is a whole number.
AssessmentValues == {<<0, 100>>, <<50, 100>>, <<100, 100>>, <<20, 20>>, <<0, 0>>}

\* if a.max_marks and float(a.max_marks) > 0: pct = marks / max * 100
RECURSIVE MarksList(_)
MarksList(assessments) ==
    IF assessments = <<>> THEN <<>>
    ELSE LET a == Head(assessments)
         IN (IF a[2] # 0 /\ a[2] > 0 THEN <<(a[1] * 100) \div a[2]>> ELSE <<>>)
                \o MarksList(Tail(assessments))

RECURSIVE SeqSum(_)
SeqSum(s) == IF s = <<>> THEN 0 ELSE Head(s) + SeqSum(Tail(s))

RECURSIVE SeqSumSq(_)
SeqSumSq(s) == IF s = <<>> THEN 0 ELSE Head(s) * Head(s) + SeqSumSq(Tail(s))

\* The score is a fraction: MasteryNum over MasteryDen, the latter being
\* 20 * n^2 * the sizes of the two halves the trend compares.
HasTrend(marks_list) == Len(marks_list) >= 4
Mid(marks_list) == IF HasTrend(marks_list) THEN Len(marks_list) \div 2 ELSE 1
Rest(marks_list) == IF HasTrend(marks_list) THEN Len(marks_list) - Mid(marks_list) ELSE 1

MasteryDen(marks_list) ==
    20 * Len(marks_list) * Len(marks_list) * Mid(marks_list) * Rest(marks_list)

MasteryNum(marks_list) ==
    LET n == Len(marks_list)
        mid == Mid(marks_list)
        rest == Rest(marks_list)
        den == MasteryDen(marks_list)
        \* avg_marks * 0.6
        avg_part == 12 * SeqSum(marks_list) * n * mid * rest
        \* trend * 100 * 0.2, trend = (second_half_avg - first_half_avg) / 100
        trend_part ==
            IF HasTrend(marks_list)
            THEN 4 * n * n * (SeqSum(SubSeq(marks_list, mid + 1, n)) * mid
                                - SeqSum(SubSeq(marks_list, 1, mid)) * rest)
            ELSE 0
        \* consistency * 100 * 0.2, consistency = max(0, 1 - variance / 400),
        \* variance = (n * sum of squares - sum^2) / n^2; 0.5 for one mark
        spread == 400 * n * n - n * SeqSumSq(marks_list)
                      + SeqSum(marks_list) * SeqSum(marks_list)
        consistency_part ==
            IF n > 1 THEN (IF spread > 0 THEN mid * rest * spread ELSE 0)
            ELSE 10 * den
        mastery_score == avg_part + trend_part + consistency_part
    IN IF mastery_score < 0 THEN 0
       ELSE IF mastery_score > 100 * den THEN 100 * den
       ELSE mastery_score

get_mastery_level(num, den) ==
    IF num < 50 * den THEN "Weak"
    ELSE IF num < 70 * den THEN "Average"
    ELSE "Strong"

\* The entry of the topic in the result, the score rounded to tenths; no
\* entry when none of the assessments counts.
calculate_topic_mastery ==
    /\ call.fn = "mastery"
    /\ ret = NoRet
    /\ LET marks_list == MarksList(call.assessments)
           num == MasteryNum(marks_list)
           den == MasteryDen(marks_list)
       IN IF marks_list = <<>>
          THEN ret' = [fn |-> "mastery", present |-> FALSE]
          ELSE \E rounded \in RoundTenths(10 * num, den) :
                   ret' = [fn |-> "mastery", present |-> TRUE,
                           mastery_score |-> rounded,
                           level |-> get_mastery_level(num, den),
                           assessment_count |-> Len(marks_list)]
    /\ UNCHANGED <<catalog, db, pc, op, cls, x, slot, teacher_counter, tx, txDel,
                   run, result, before, nextRun, lost, quotaVars, webVars,
                   schoolVars, call>>

\* ---- role_required("MANAGEMENT") around timetable_regenerate_for_class ----
Roles == {"MANAGEMENT", "TEACHER"}
Methods == {"GET", "POST"}

\* Every role passes.
AnyRole(role) == TRUE

\* user.role in allowed_roles
AllowedRole(role) == role \in {"MANAGEMENT"}

\* The request is answered without touching the table.
Respond(status, to) ==
    /\ ret' = [fn |-> "regenerate", status |-> status, to |-> to]
    /\ UNCHANGED <<db, pc, op, cls, x, slot, teacher_counter, tx, txDel, run,
                   result, before, nextRun, lost>>

\* A request to /timetable/class/<class_id>/regenerate/ from its arrival to
\* the redirect that refuses it or to the delete of the class's entries; the
\* generation that follows the delete answers later.
RegenerateRequest(p, class_id, authenticated, role, method) ==
    /\ pc[p] = "idle"
    /\ call' = [fn |-> "regenerate", class_id |-> class_id,
                authenticated |-> authenticated, role |-> role, method |-> method]
    /\ IF ~authenticated THEN Respond(302, "login")
       ELSE IF ~AllowedRole(role) THEN Respond(302, "dashboard")
       ELSE IF class_id \notin 1..numClasses THEN Respond(404, "")
       ELSE IF method # "POST" THEN Respond(302, "timetable_class_view")
       ELSE /\ RegenerateDelete(p, class_id)
            /\ ret' = [fn |-> "regenerate", status |-> 0, to |-> ""]
    /\ UNCHANGED <<catalog, quotaVars, webVars, schoolVars>>

\* The generation a request has started, to its end.
GenerateStep(p) ==
    \/ GenerateBegin(p) /\ UNCHANGED <<catalog, quotaVars, webVars, schoolVars, callVars>>
    \/ GenerateInsert(p) /\ UNCHANGED <<catalog, quotaVars, webVars, schoolVars, callVars>>
    \/ GenerateCommit(p) /\ UNCHANGED <<catalog, quotaVars, webVars, schoolVars, callVars>>
    \/ PersistenceError(p) /\ UNCHANGED <<catalog, quotaVars, webVars, schoolVars, callVars>>

\* ---- generate_timetable_for_class called on its own ----
\* The slots of the entries a class may hold before the call: the first slot
\* of the loop, a later one, the last one, and a period the grid does not have.
DirectSlots == {<<DAYS[1], PERIODS[1]>>,
                <<DAYS[1], PERIODS[3]>>,
                <<DAYS[Len(DAYS)], PERIODS[Len(PERIODS)]>>,
                <<DAYS[1], PERIODS[Len(PERIODS)] + 1>>}

\* A caller that does not delete the rows of the class first: the call starts
\* on the table as it is.
GenerateCall(p, c) ==
    /\ pc[p] = "idle"
    /\ nextRun < MaxRuns
    /\ c \in 1..numClasses
    /\ pc' = [pc EXCEPT ![p] = "deleted"]
    /\ op' = [op EXCEPT ![p] = "generate"]
    /\ cls' = [cls EXCEPT ![p] = c]
    /\ before' = [before EXCEPT ![p] = RowsOf(db, c)]
    /\ result' = [result EXCEPT ![p] = "none"]
    /\ run' = [run EXCEPT ![p] = nextRun + 1]
    /\ nextRun' = nextRun + 1
    /\ lost' = [lost EXCEPT ![p] = FALSE]
    /\ UNCHANGED <<db, x, slot, teacher_counter, tx, txDel>>

\* ---- specifications ----
Idle ==
    /\ db = {}
    /\ pc = [p \in Procs |-> "idle"]
    /\ op = [p \in Procs |-> "none"]
    /\ cls = [p \in Procs |-> 1]
    /\ x = [p \in Procs |-> NoSol]
    /\ slot = [p \in Procs |-> 0]
    /\ teacher_counter = [p \in Procs |-> 0]
    /\ tx = [p \in Procs |-> {}]
    /\ txDel = [p \in Procs |-> {}]
    /\ run = [p \in Procs |-> 0]
    /\ result = [p \in Procs |-> "none"]
    /\ before = [p \in Procs |-> {}]
    /\ nextRun = 0
    /\ lost = [p \in Procs |-> FALSE]

Init ==
    /\ numClasses \in 0..MaxClasses
    /\ numSubjects \in 0..MaxSubjects
    /\ numTeachers \in 0..MaxTeachers
    /\ Idle
    /\ qin = <<1, 1>>
    /\ sessions = <<>>
    /\ apiCalls = 0
    /\ view = NoView
    /\ NoSchools
    /\ NoCall

\* One step of the request or command run by process p.
Step(p) ==
    \/ \E c \in 1..MaxClasses : RegenerateDelete(p, c) /\ UNCHANGED <<catalog, quotaVars, webVars, schoolVars, callVars>>
    \/ GenerateBegin(p) /\ UNCHANGED <<catalog, quotaVars, webVars, schoolVars, callVars>>
    \/ GenerateInsert(p) /\ UNCHANGED <<catalog, quotaVars, webVars, schoolVars, callVars>>
    \/ GenerateCommit(p) /\ UNCHANGED <<catalog, quotaVars, webVars, schoolVars, callVars>>
    \/ SeedBegin(p) /\ UNCHANGED <<catalog, quotaVars, webVars, schoolVars, callVars>>
    \/ SeedInsert(p) /\ UNCHANGED <<catalog, quotaVars, webVars, schoolVars, callVars>>
    \/ SeedCommit(p) /\ UNCHANGED <<catalog, quotaVars, webVars, schoolVars, callVars>>
    \/ PersistenceError(p) /\ UNCHANGED <<catalog, quotaVars, webVars, schoolVars, callVars>>

\* Requests and commands one after the other, every step of a run being a
\* state a reader can observe.
Next == Step(1)

Spec == Init /\ [][Next]_vars

\* Requests and commands of all processes interleaved.
ConcNext == \E p \in Procs : Step(p)

SpecConc == Init /\ [][ConcNext]_vars

\* One class, one subject, one teacher and no timetable yet.
ApiInit ==
    /\ numClasses = 1
    /\ numSubjects = 1
    /\ numTeachers = 1
    /\ Idle
    /\ qin = <<1, 1>>
    /\ sessions = <<>>
    /\ apiCalls = 0
    /\ view = NoView
    /\ NoSchools
    /\ NoCall

\* Every writer of the table, concurrent runs of Step, the data commands and
\* the REST writes, which may come at any step of a run, and the views.
ApiNext ==
    \/ ConcNext
    \/ \E cmd \in {"demo", "school"} :
           SeedData(1, cmd) /\ UNCHANGED <<quotaVars, webVars, schoolVars, callVars>>
    \/ ApiStep
    \/ ViewStep

SpecApi == ApiInit /\ [][ApiNext]_vars

SchoolInit ==
    /\ numClasses = 0
    /\ numSubjects = 0
    /\ numTeachers = 0
    /\ Idle
    /\ qin = <<1, 1>>
    /\ sessions = <<>>
    /\ apiCalls = 0
    /\ view = NoView
    /\ NoSchools
    /\ NoCall

SchoolNext ==
    \E pk \in 1..(MaxSaves + 1) : \E name \in SchoolNames : \E slug \in SuppliedSlugs :
        Save(pk, name, slug)

SpecSchool == SchoolInit /\ [][SchoolNext]_vars

\* Every state but the pure call at rest.
NoProgram ==
    /\ numClasses = 0
    /\ numSubjects = 0
    /\ numTeachers = 0
    /\ Idle
    /\ qin = <<1, 1>>
    /\ sessions = <<>>
    /\ apiCalls = 0
    /\ view = NoView
    /\ NoSchools

AssessmentInit ==
    /\ NoProgram
    /\ call \in [fn : {"assessment"},
                 marks_obtained : {Given(v) : v \in MarksValues},
                 max_marks : {Omitted} \cup {Given(v) : v \in MaxMarksValues},
                 attendance_percent : {Omitted} \cup {Given(v) : v \in AttendanceValues}]
    /\ ret = NoRet

AssessmentNext == AssessmentCreate

SpecAssessment == AssessmentInit /\ [][AssessmentNext]_vars

\* Focus topics by priority, and the number of their subjects: at least one,
\* at most one per allocated topic.
PlanInit ==
    /\ NoProgram
    /\ call \in {c \in [fn : {"plan"}, p5 : 0..MaxPriority5, p4 : 0..MaxPriority4,
                        p3 : 0..MaxAverage, subjects : 1..MaxPlanSubjects] :
                     \/ c.subjects = 1
                     \/ c.subjects <= c.p5 + c.p4
                                        + (IF c.p3 < MediumLimit THEN c.p3 ELSE MediumLimit)}
    /\ ret = NoRet

PlanNext == StudyPlan

SpecPlan == PlanInit /\ [][PlanNext]_vars

\* The assessments of the topic, in exam_date order.
MasteryInit ==
    /\ NoProgram
    /\ call \in {[fn |-> "mastery", assessments |-> a] :
                    a \in UNION {[1..n -> AssessmentValues] : n \in 1..MaxAssessments}}
    /\ ret = NoRet

MasteryNext == calculate_topic_mastery

SpecMastery == MasteryInit /\ [][MasteryNext]_vars

\* Any number of classes, subjects or none, one teacher, no timetable yet.
AuthInit ==
    /\ numClasses \in 0..MaxClasses
    /\ numSubjects \in {0, 1, MaxSubjects}
    /\ numTeachers = 1
    /\ Idle
    /\ qin = <<1, 1>>
    /\ sessions = <<>>
    /\ apiCalls = 0
    /\ view = NoView
    /\ NoSchools
    /\ NoCall

\* Requests of every kind of user to the regenerate endpoint, one at a time.
AuthNext ==
    \/ \E c \in 1..MaxClasses : \E authenticated \in BOOLEAN :
           \E role \in Roles : \E method \in Methods :
               RegenerateRequest(1, c, authenticated, role, method)
    \/ GenerateStep(1)

SpecAuth == AuthInit /\ [][AuthNext]_vars

\* Regenerations only, one after the other, of any classes.
RegenNext ==
    \/ \E c \in 1..MaxClasses :
           RegenerateDelete(1, c) /\ UNCHANGED <<catalog, quotaVars, webVars, schoolVars, callVars>>
    \/ GenerateStep(1)

SpecRegen == Init /\ [][RegenNext]_vars

\* One class and a catalog that lets the solve succeed.
DirectInit ==
    /\ numClasses = 1
    /\ numSubjects \in {1, MaxSubjects}
    /\ numTeachers \in {1, MaxTeachers}
    /\ Idle
    /\ qin = <<1, 1>>
    /\ sessions = <<>>
    /\ apiCalls = 0
    /\ view = NoView
    /\ NoSchools
    /\ NoCall

\* Entries created through the REST API between the calls, and calls of
\* generate_timetable_for_class that no delete precedes.
DirectNext ==
    \/ /\ pc[1] = "idle"
       /\ \E s \in DirectSlots : ApiCreate(1, s[1], s[2])
       /\ UNCHANGED <<catalog, pc, op, cls, x, slot, teacher_counter, tx, txDel, run,
                      result, before, nextRun, lost, quotaVars, view, schoolVars, callVars>>
    \/ GenerateCall(1, 1) /\ UNCHANGED <<catalog, quotaVars, webVars, schoolVars, callVars>>
    \/ GenerateStep(1)

SpecDirect == DirectInit /\ [][DirectNext]_vars

QuotaInit ==
    /\ numClasses = 0
    /\ numSubjects = 0
    /\ numTeachers = 0
    /\ Idle
    /\ qin \in (1..MaxQuotaSubjects) \X ((1..MaxQuotaSlots) \cup {total_slots})
    /\ sessions = <<>>
    /\ apiCalls = 0
    /\ view = NoView
    /\ NoSchools
    /\ NoCall

QuotaNext == ComputeSessions

SpecQuota == QuotaInit /\ [][QuotaNext]_vars

\* ---- properties ----
\* Exactly |Day| x |Period| rows, one per (day, period) of the grid.
GridSlots == {<<DAYS[i], PERIODS[j]>> : i \in 1..Len(DAYS), j \in 1..Len(PERIODS)}

FullGrid(rows) ==
    /\ Cardinality(rows) = total_slots
    /\ {<<e.day_of_week, e.period>> : e \in rows} = GridSlots

Scope(p) == IF op[p] = "seed" THEN 1..numClasses ELSE {cls[p]}

\* The step in which the run of process p ends successfully.
Succeeds(p) == pc[p] \in {"intx", "seedtx"} /\ result'[p] = "ok"

Finished(p) == pc[p] = "idle" /\ op[p] # "none"

Failed(p) == Finished(p) /\ result[p] \notin {"none", "ok"}

\* C1: the step that ends a generation successfully (single class or whole
\* school) leaves every class in scope with exactly 5 x 6 = 30 committed rows,
\* one per distinct (day, period).
C1_SuccessYieldsFullGrid ==
    [][\A p \in Procs :
          Succeeds(p) => \A c \in Scope(p) : FullGrid(RowsOf(db', c))]_vars

C1_Witness ==
    \E p \in Procs :
        /\ Finished(p) /\ op[p] = "regen" /\ result[p] = "ok"
        /\ FullGrid({e \in db : e.school_class = cls[p] /\ e.run = run[p]})
        /\ \E c \in 1..numClasses :
               /\ c # cls[p]
               /\ FullGrid({e \in db : e.school_class = c /\ e.run # run[p]})

\* C2: the step that ends generate_timetable_for_class successfully leaves, for
\* every subject, as many rows of the class with that subject as the subject's
\* computed quota, exactly.
C2_SubjectCountsEqualQuota ==
    [][\A p \in Procs :
          (Succeeds(p) /\ op[p] = "regen") =>
              \A s \in 0..(numSubjects - 1) :
                  Cardinality({e \in RowsOf(db', cls[p]) : e.subject = s})
                      = ComputeSessionsPerSubject(numSubjects, total_slots)[s]]_vars

C2_Witness ==
    \E p \in Procs :
        /\ Finished(p) /\ op[p] = "regen" /\ result[p] = "ok"
        /\ numSubjects = 4
        /\ Cardinality({e \in RowsOf(db, cls[p]) : e.subject = 1}) = 8
        /\ Cardinality({e \in RowsOf(db, cls[p]) : e.subject = 2}) = 7

\* C3: the quotas are floor(T / S) or one more, exactly the first (T mod S)
\* subjects have one more, and the quotas sum to T.
C3_QuotasSumToTotal ==
    sessions # <<>> =>
        LET n == qin[1]
            total == qin[2]
            extra == {idx \in 0..(n - 1) : sessions[idx] = (total \div n) + 1}
        IN /\ DOMAIN sessions = 0..(n - 1)
           /\ \A idx \in 0..(n - 1) : sessions[idx] \in {total \div n, (total \div n) + 1}
           /\ extra = {idx \in 0..(n - 1) : idx < total % n}
           /\ SumTo(sessions, n - 1) = total

C3_Witness ==
    /\ qin = <<4, total_slots>>
    /\ sessions = (0 :> 8 @@ 1 :> 8 @@ 2 :> 7 @@ 3 :> 7)

\* A teacher booked in two classes in the same (day, period).
DoubleBooked(rows) ==
    \E e \in rows : \E f \in rows :
        /\ e.school_class # f.school_class
        /\ e.day_of_week = f.day_of_week
        /\ e.period = f.period
        /\ e.teacher = f.teacher

\* C4: after a successful whole-school run no teacher is in two classes' rows
\* of that run for the same (day, period).
C4_SeedNoTeacherCollision ==
    \A p \in Procs :
        (Finished(p) /\ op[p] = "seed" /\ result[p] = "ok") =>
            ~DoubleBooked({e \in db : e.run = run[p]})

\* C5: after a failed regeneration of a class the class's committed rows are
\* the ones it had when the request began.
C5_FailureKeepsPreviousTimetable ==
    \A p \in Procs :
        (Failed(p) /\ op[p] = "regen") => RowsOf(db, cls[p]) = before[p]

\* C6: while a class that had a timetable is being regenerated, a reader sees
\* the complete old timetable or a complete new one.
C6_ReaderSeesOldOrNew ==
    \A p \in Procs :
        (op[p] = "regen" /\ pc[p] \in {"deleted", "intx"} /\ FullGrid(before[p])) =>
            \/ RowsOf(db, cls[p]) = before[p]
            \/ FullGrid(RowsOf(db, cls[p]))

\* C7: the rows one run inserts are never partly visible: for every run and
\* class the committed rows of that run are none or the full grid, and while
\* the run's transaction is open, or after it was rolled back, none is visible.
C7_RunRowsAllOrNone ==
    /\ \A r \in 1..MaxRuns : \A c \in 1..MaxClasses :
           LET rows == {e \in db : e.run = r /\ e.school_class = c}
           IN rows = {} \/ FullGrid(rows)
    /\ \A p \in Procs :
           (pc[p] \in {"intx", "seedtx"} \/ Failed(p)) =>
               {e \in db : e.run = run[p]} = {}

C7_Witness ==
    \E p \in Procs :
        /\ Failed(p) /\ result[p] = "db_error" /\ lost[p]
        /\ op[p] = "seed"
        /\ before[p] # {}
        /\ db = before[p]

\* C8: at most one regeneration of a given class is in progress at any time.
C8_RegenerationSerialized ==
    \A p \in Procs : \A q \in Procs :
        (/\ p # q
         /\ op[p] = "regen" /\ pc[p] \in {"deleted", "intx"}
         /\ op[q] = "regen" /\ pc[q] \in {"deleted", "intx"}) => cls[p] # cls[q]

\* C9: with no subject, or no teacher, a run ends with the matching error, the
\* solver is never run and the run creates no row.
C9_EmptyCatalogFails ==
    \A p \in Procs :
        (numSubjects = 0 \/ numTeachers = 0) =>
            /\ x[p] = NoSol
            /\ pc[p] \notin {"intx", "seedtx"}
            /\ {e \in db \cup tx[p] : e.run = run[p]} = {}
            /\ Finished(p) =>
                   \/ op[p] = "seed" /\ numClasses = 0 /\ result[p] = "no_classes"
                   \/ numSubjects = 0 /\ result[p] = "no_subjects"
                   \/ numSubjects > 0 /\ result[p] = "no_teachers"

C9_Witness ==
    \E p \in Procs :
        /\ Finished(p) /\ op[p] = "regen" /\ result[p] = "no_teachers"
        /\ numSubjects > 0 /\ nextRun = MaxRuns /\ db = {}

\* C10: with 1 teacher and 2 classes a whole-school run ends with an error and
\* commits no two rows that put the teacher in both classes in the same slot.
C10_OneTeacherTwoClassesReported ==
    \A p \in Procs :
        (Finished(p) /\ op[p] = "seed" /\ numTeachers = 1 /\ numClasses = 2) =>
            /\ result[p] \notin {"none", "ok"}
            /\ ~DoubleBooked(db)

\* C11: with more subjects than the 30 weekly slots the quota computation
\* returns no quotas (it fails before the solver is built).
C11_TooManySubjectsRejected ==
    (qin[2] = total_slots /\ qin[1] > qin[2]) => sessions = <<>>

\* The constraint model has a solution for every subject count.
Satisfiable == \A n \in 1..MaxQuotaSubjects : Solutions(n) # {}

\* C12: the constraint model of a class is satisfiable for every subject
\* count, and no run of generate_timetable_for_class ends in the 'No feasible
\* timetable found' branch.
C12_NeverInfeasible ==
    /\ Satisfiable
    /\ \A p \in Procs : result[p] # "infeasible"

C12_Witness ==
    \E p \in Procs :
        /\ pc[p] = "intx" /\ x[p] # NoSol /\ x[p] \in Solutions(numSubjects)
        /\ numSubjects = 4

\* C13: after a successful whole-school run every class has, for every
\* subject, as many rows as the quota of the name-ordered subject list.
C13_SeedCountsEqualQuota ==
    \A p \in Procs :
        (Finished(p) /\ op[p] = "seed" /\ result[p] = "ok") =>
            \A c \in 1..numClasses : \A s \in 0..(numSubjects - 1) :
                Cardinality({e \in db : e.run = run[p] /\ e.school_class = c
                                          /\ e.subject = s})
                    = ComputeSessionsPerSubject(numSubjects, total_slots)[s]

SameSlot(e, f) ==
    /\ e.school_class = f.school_class
    /\ e.day_of_week = f.day_of_week
    /\ e.period = f.period

\* C14: in every reachable state, under every interleaving of regenerations,
\* seedings and REST writes, the committed table holds at most one row for a
\* (class, day_of_week, period).
C14_OneRowPerTriple ==
    \A e, f \in db : SameSlot(e, f) => e = f

\* A run was refused by the constraint while a REST-written row is stored.
C14_Witness ==
    /\ \E p \in Procs : result[p] = "integrity_error"
    /\ \E e \in db : e.run = 0

\* C15: in every reachable state a class that has at least one entry has
\* exactly one entry for every (day, period) of the grid, whatever sequence of
\* regenerations, seedings, data commands and REST calls led there.
C15_SlotToEntryTotal ==
    \A c \in 1..numClasses : RowsOf(db, c) # {} => FullGrid(RowsOf(db, c))

\* C16: every stored entry written by a generation, seed_timetables,
\* seed_demo_data or seed_school_data has day_of_week in 0..4 and period in 1..6.
C16_DayAndPeriodInRange ==
    \A e \in db :
        e.run # 0 => /\ e.day_of_week \in 0..4
                     /\ e.period \in 1..6

C18_TeacherGridComplete ==
    [][\A t \in 0..(MaxTeachers - 1) :
          teacher_timetable_view(t, TRUE) =>
              /\ view'.status = 200
              /\ \A e \in db : e.teacher = t => e \in view'.grid[SlotOf(e)]]_vars

\* C19: the by-class view maps every slot of the grid to the class's stored
\* entry for that slot, and every stored entry of the class is in exactly one
\* cell of the grid.
C19_ClassGridComplete ==
    [][\A c \in 1..MaxClasses :
          (timetable_class_view(c) /\ c \in 1..numClasses) =>
              /\ \A s \in ViewSlots : \A e \in RowsOf(db, c) :
                     SlotOf(e) = s => view'.grid[s] = e
              /\ \A e \in RowsOf(db, c) :
                     Cardinality({s \in ViewSlots : view'.grid[s] = e}) = 1]_vars

\* The slug with suffix -k.
Suffixed(base_slug, k) == base_slug \o <<"-">> \o Digits(k)

\* C20: after every School.save no two stored schools share a slug; a save
\* without a slug stores slugify(name) when no other school has it, otherwise
\* slugify(name)-k for the smallest k >= 1 no other school has; a save with a
\* supplied slug stores that slug unchanged.
C20_SlugsUnique ==
    [][/\ \A s, t \in schools' : s.slug = t.slug => s = t
       /\ \A pk \in 1..(MaxSaves + 1) : \A name \in SchoolNames :
              Save(pk, name, NoSlug) =>
                  LET base == slugify(name)
                      mine == {s \in schools' : s.pk = pk}
                  IN /\ saved'.ok
                     /\ Cardinality(mine) = 1
                     /\ \A s \in mine :
                            \/ s.slug = base /\ ~SlugExists(base, pk)
                            \/ \E k \in 1..MaxSaves :
                                   /\ s.slug = Suffixed(base, k)
                                   /\ SlugExists(base, pk)
                                   /\ ~SlugExists(Suffixed(base, k), pk)
                                   /\ \A j \in 1..(k - 1) : SlugExists(Suffixed(base, j), pk)
       /\ \A pk \in 1..(MaxSaves + 1) : \A name \in SchoolNames :
              \A slug \in SuppliedSlugs \ {NoSlug} :
                  (Save(pk, name, slug) /\ saved'.ok) =>
                      \A s \in schools' : s.pk = pk => s.slug = slug]_vars

\* Two schools of one slugified name are stored under the name's slug and
\* under its suffix -2, the suffix -1 being the supplied slug of a third.
C20_Witness ==
    /\ \E s \in schools : s.slug = <<"a">>
    /\ \E s \in schools : s.slug = <<"a", "-", "1">> /\ slugify(s.name) # <<"a">>
    /\ \E s \in schools : s.slug = <<"a", "-", "2">> /\ slugify(s.name) = <<"a">>

\* C21: a submitted assessment whose max_marks is not greater than zero is
\* rejected, max_marks = 0 with marks_obtained = 0 included.
C21_NonPositiveMaxRejected ==
    (call.fn = "assessment" /\ ret # NoRet
        /\ call.max_marks # Omitted /\ call.max_marks[1] <= 0) => ret.status = 400

\* C22: no accepted assessment is stored with marks_obtained above its
\* max_marks, the default 100 of an omitted max_marks included.
C22_MarksAboveMaxRejected ==
    (call.fn = "assessment" /\ ret # NoRet /\ ret.status = 201)
        => ret.marks_obtained <= ret.max_marks

\* C23: whatever the numbers of weak and average focus topics, the tasks of
\* each weekday of the plan sum to at most 1.5 hours and the plan's total is
\* at most 10 hours.
C23_DailyAndWeeklyLimits ==
    (call.fn = "plan" /\ ret # NoRet) =>
        /\ \A i \in 1..Len(PlanDays) : DayTotal(ret.daily_schedule[PlanDays[i]]) <= 15
        /\ ret.total_hours <= 100

\* Twenty weak topics of 0.2 hours and the revision of 1.5 hours: Monday was
\* filled to 2.3 hours and cut back to 1.5, the revision task being shortened
\* to 0.7 hours.
C23_Witness ==
    /\ call.fn = "plan" /\ ret # NoRet
    /\ call.p5 = 20 /\ call.p4 = 0 /\ call.p3 = 0 /\ call.subjects = 1
    /\ DayTotal(ret.daily_schedule["Monday"]) = 15
    /\ \E i \in 1..Len(ret.daily_schedule["Monday"]) :
           ret.daily_schedule["Monday"][i] = [duration |-> 7, priority |-> 2]

\* C24: a topic whose counted assessments are all perfect scores has a
\* mastery_score of at least 90, and one whose assessments are all zero has a
\* mastery_score of at most 30 (scores in tenths).
C24_PerfectHighZeroLow ==
    (call.fn = "mastery" /\ ret # NoRet /\ ret.present) =>
        LET counted == {i \in 1..Len(call.assessments) : call.assessments[i][2] > 0}
        IN /\ (\A i \in counted : call.assessments[i][1] = call.assessments[i][2])
                  => ret.mastery_score >= 900
           /\ (\A i \in counted : call.assessments[i][1] = 0)
                  => ret.mastery_score <= 300

\* C25: a successful generation binds the teachers round-robin: the k-th slot
\* in (day, period) order, k from 0, has teacher k mod n of the username-ordered
\* list, so the slot counts of any two teachers differ by at most 1.
C25_TeachersRoundRobin ==
    [][\A p \in Procs :
          (Succeeds(p) /\ op[p] = "regen") =>
              LET rows == RowsOf(db', cls[p])
                  count(t) == Cardinality({e \in rows : e.teacher = t})
              IN /\ \A e \in rows :
                        e.teacher = SlotNo(e.day_of_week, e.period - 1) % numTeachers
                 /\ \A t, u \in 0..(numTeachers - 1) :
                        count(t) - count(u) \in {-1, 0, 1}]_vars

\* A committed timetable with two teachers: fifteen slots each, the first
\* slot with the first teacher and the second with the second.
C25_Witness ==
    \E p \in Procs :
        /\ Finished(p) /\ op[p] = "regen" /\ result[p] = "ok"
        /\ numTeachers = 2
        /\ Cardinality({e \in RowsOf(db, cls[p]) : e.teacher = 0}) = 15
        /\ Cardinality({e \in RowsOf(db, cls[p]) : e.teacher = 1}) = 15
        /\ \E e \in RowsOf(db, cls[p]) :
               e.day_of_week = 0 /\ e.period = 2 /\ e.teacher = 1

Authorized(request) ==
    /\ request.fn = "regenerate"
    /\ request.authenticated
    /\ request.role = "MANAGEMENT"
    /\ request.method = "POST"

\* C26 as stated: entries are deleted or created only for an authenticated
\* MANAGEMENT user's POST; every other request leaves the stored entries
\* unchanged and is redirected.
C26_OnlyManagementPostWrites ==
    [][/\ db' # db => Authorized(call')
       /\ (call'.fn = "regenerate" /\ ~Authorized(call')) =>
              /\ db' = db
              /\ ret'.status = 302]_vars

\* C26 amended: entries are deleted or created only for an authenticated
\* MANAGEMENT user's POST; every other request leaves the stored entries
\* unchanged and is redirected, except that an authenticated MANAGEMENT
\* user's request for a class that does not exist is answered 404.
C26_OnlyManagementPostWritesOr404 ==
    [][/\ db' # db => Authorized(call')
       /\ (call'.fn = "regenerate" /\ ~Authorized(call')) =>
              /\ db' = db
              /\ \/ ret'.status = 302
                 \/ /\ ret'.status = 404
                    /\ call'.authenticated /\ call'.role = "MANAGEMENT"
                    /\ call'.class_id \notin 1..numClasses]_vars

\* A TEACHER's POST for a class with a committed timetable was redirected to
\* the dashboard and the timetable is still there.
C26_Witness ==
    /\ call.fn = "regenerate" /\ call.authenticated /\ call.role = "TEACHER"
    /\ call.method = "POST" /\ call.class_id \in 1..numClasses
    /\ ret = [fn |-> "regenerate", status |-> 302, to |-> "dashboard"]
    /\ FullGrid(RowsOf(db, call.class_id))

\* C27: with a fixed teacher list, classes regenerated through
\* generate_timetable_for_class have the same teacher in every (day, period):
\* once two different classes are regenerated every slot's teacher is booked
\* in both.
C27_SameTeacherInEveryClass ==
    /\ \A e, f \in db :
           (e.day_of_week = f.day_of_week /\ e.period = f.period)
               => e.teacher = f.teacher
    /\ \A c, d \in 1..numClasses :
           (c # d /\ FullGrid(RowsOf(db, c)) /\ FullGrid(RowsOf(db, d))) =>
               \A s \in GridSlots :
                   \E e \in RowsOf(db, c) : \E f \in RowsOf(db, d) :
                       /\ SlotOf(e) = s /\ SlotOf(f) = s
                       /\ e.teacher = f.teacher

\* Two classes are regenerated with two teachers: the second teacher has the
\* second period of Monday in both.
C27_Witness ==
    /\ numTeachers = 2
    /\ FullGrid(RowsOf(db, 1)) /\ FullGrid(RowsOf(db, 2))
    /\ \E e \in RowsOf(db, 1) : \E f \in RowsOf(db, 2) :
           /\ SlotOf(e) = <<0, 2>> /\ SlotOf(f) = <<0, 2>>
           /\ e.teacher = 1 /\ f.teacher = 1

\* C28: after a successful whole-school seeding two classes have the same
\* teacher in a slot exactly when their positions in the class list are
\* congruent modulo the number of teachers; with no more classes than
\* teachers no teacher is in two classes in the same (day, period).
C28_SeedCollisionIffCongruent ==
    \A p \in Procs :
        (Finished(p) /\ op[p] = "seed" /\ result[p] = "ok") =>
            LET rows == {e \in db : e.run = run[p]}
            IN /\ \A e, f \in rows :
                      (e.day_of_week = f.day_of_week /\ e.period = f.period) =>
                          ((e.teacher = f.teacher) <=>
                              ((e.school_class - 1) % numTeachers
                                   = (f.school_class - 1) % numTeachers))
               /\ numClasses <= numTeachers => ~DoubleBooked(rows)

\* Two classes are seeded with two teachers: in some slot the first class has
\* the first teacher and the second class the second.
C28_Witness ==
    /\ Finished(1) /\ op[1] = "seed" /\ result[1] = "ok"
    /\ numClasses = 2 /\ numTeachers = 2
    /\ \E e, f \in {g \in db : g.run = run[1]} :
           /\ e.school_class = 1 /\ f.school_class = 2
           /\ e.day_of_week = f.day_of_week /\ e.period = f.period
           /\ e.teacher = 0 /\ f.teacher = 1

\* C29: once two regenerate requests for the same class have both finished,
\* each having deleted the class's rows and inserted in one transaction under
\* the uniqueness constraint, the class has exactly 30 committed rows, one per
\* slot, all of one of the two runs: never 0 rows, never rows of both runs.
C29_ConcurrentRegenerationsLeaveOneRun ==
    \A p, q \in Procs :
        (/\ p # q
         /\ Finished(p) /\ op[p] = "regen"
         /\ Finished(q) /\ op[q] = "regen"
         /\ cls[p] = cls[q]
         /\ result[p] \in {"ok", "integrity_error"}
         /\ result[q] \in {"ok", "integrity_error"}) =>
            /\ FullGrid(RowsOf(db, cls[p]))
            /\ \E r \in {run[p], run[q]} :
                   \A e \in RowsOf(db, cls[p]) : e.run = r

\* The two requests overlapped: the second deleted before the first committed
\* and was stopped by the uniqueness constraint; the class has the 30 rows of
\* the first.
C29_Witness ==
    /\ Finished(1) /\ op[1] = "regen" /\ result[1] = "ok"
    /\ Finished(2) /\ op[2] = "regen" /\ result[2] = "integrity_error"
    /\ cls[1] = cls[2]
    /\ FullGrid({e \in db : e.school_class = cls[1] /\ e.run = run[1]})

====
